---- MODULE Spec2Model ----
(***************************************************************************)
(* A model of mqtt_reg.py: the register data model (in-memory, read-only   *)
(* and persistent server registers, client registers) and the Registry     *)
(* engine (inbound dispatch, debounced publish, advertise broadcast,       *)
(* liveness timers, link-edge watchers) under uasyncio's single-threaded   *)
(* cooperative scheduling: every action below is one run of a task from    *)
(* one await to the next.                                                  *)
(***************************************************************************)
EXTENDS Integers, Sequences, FiniteSets, TLC

VARIABLES
    server,                 \* the names of the registers of Registry(server=[...]), as declared
    server_names,           \* Registry.server_names: the keys of ServerListHandler.registers
    client_names,           \* Registry.client_names: the keys of ClientListHandler.registers
    kind,                   \* the class of each declared server register
    value,                  \* ServerRegister.value: the in-memory field of each server register
    db,                     \* the btree store: name -> bytes
    publish_in_progress,    \* Registry.publish_in_progress
    pubTasks,               \* the publish tasks (publish_register_value.do_async) not yet finished
    cvalue,                 \* ClientRegister.value
    client_timeouts,        \* Registry.client_timeouts: name -> handle of the latest liveness task
    timers,                 \* the liveness tasks (reset_client_timeout.do_async) not yet finished
    advertise_in_progress,  \* Registry.advertise_in_progress
    advTasks,               \* the advertise tasks (advertise_registers.do_async) not yet finished
    link,                   \* whether the transport's link is up
    up_event,               \* mqtt_client.up
    down_event,             \* mqtt_client.down
    upIdx,                  \* up_event_loop: 0 at up.wait(), i > 0 awaiting the i-th subscribe
    ready,                  \* the edge watchers an event's set() has made runnable, in order
    online,                 \* the argument of the latest online_cb call
    reader,                 \* run_async: "connect", "backoff" or "backoff_fatal" in the connect
                            \* loop, "running" in read_messages, "dead" when an exception escaped
    lastOp                  \* history: the step taken last and what it did

cfgVars    == <<server, server_names, client_names, kind>>
serverVars == <<value, db, publish_in_progress, pubTasks>>
clientVars == <<cvalue, client_timeouts, timers>>
advVars    == <<advertise_in_progress, advTasks>>
linkVars   == <<link, up_event, down_event, upIdx, ready, online>>
vars == <<cfgVars, serverVars, clientVars, advVars, linkVars, reader, lastOp>>

----------------------------------------------------------------------------
(* Names.  "a" and "b" may be declared server registers, "c" a declared    *)
(* client register; "u" is declared in neither role.                       *)
Names == {"a", "b", "c", "u"}

Kinds == {"mem", "ro", "pbool", "pfloat"}

InSeq(x, s) == \E i \in 1..Len(s) : s[i] = x

(* get_names() of the list handlers, lines 105-106 and 139-140: the keys   *)
(* of the dict the constructor filled from the list of registers.  A name  *)
(* declared twice is one key, and the order of the keys is the dict's: the *)
(* order of insertion on CPython, the order of the hash table on           *)
(* MicroPython.                                                            *)
get_names(regs) ==
    LET keys == {regs[i] : i \in 1..Len(regs)} IN
    {q \in [1..Cardinality(keys) -> keys] : \A k \in keys : \E i \in DOMAIN q : q[i] = k}

----------------------------------------------------------------------------
(* Python values: None, bool, int, float.  `==` of Python compares numbers *)
(* and booleans by numeric value (True == 1, 1 == 1.0); None equals only   *)
(* None.                                                                   *)
Null      == [t |-> "null", v |-> 0]
BoolV(b)  == [t |-> "bool", v |-> IF b THEN 1 ELSE 0]
IntV(n)   == [t |-> "int", v |-> n]
FloatV(n) == [t |-> "float", v |-> n]

PyEq(x, y) == IF x.t = "null" \/ y.t = "null" THEN x.t = y.t ELSE x.v = y.v

\* 2^24 + 1: the smallest positive integer a 4-byte float cannot hold
BigInt == 2^24 + 1

\* the values the host and the peers hand to the registers
Values == {Null, BoolV(TRUE), BoolV(FALSE), IntV(BigInt)}

----------------------------------------------------------------------------
(* Payloads.  __publish_json writes no bytes for None and the JSON text    *)
(* otherwise; read_messages reads an empty payload as None and anything    *)
(* else through ujson.load, which raises on malformed text.                *)
EmptyPayload == [p |-> "empty", val |-> Null]
JsonText(v)  == [p |-> "json", val |-> v]
BadPayload   == [p |-> "bad", val |-> Null]

publish_json_payload(val) == IF ~PyEq(val, Null) THEN JsonText(val) ELSE EmptyPayload

decode_payload(message) ==
    IF message.p = "empty" THEN [raised |-> FALSE, val |-> Null]
    ELSE IF message.p = "json" THEN [raised |-> FALSE, val |-> message.val]
    ELSE [raised |-> TRUE, val |-> Null]

----------------------------------------------------------------------------
(* Bytes in the store.  A boolean register writes one byte, a float        *)
(* register the 4 bytes of struct.pack('f', v): v rounded to a 24-bit      *)
(* mantissa (round half to even).  db.get of a missing key is None.        *)
NoBytes   == [enc |-> "none", v |-> 0]
ByteB(n)  == [enc |-> "u8", v |-> n]
F32B(n)   == [enc |-> "f32", v |-> n]

RECURSIVE BitLen(_)
BitLen(n) == IF n = 0 THEN 0 ELSE 1 + BitLen(n \div 2)

F32Round(n) ==
    LET bl == BitLen(n) IN
    IF bl <= 24 THEN n
    ELSE LET ulp  == 2^(bl - 24)
             q    == n \div ulp
             r    == n % ulp
             half == ulp \div 2
             up   == r > half \/ (r = half /\ q % 2 = 1)
         IN (IF up THEN q + 1 ELSE q) * ulp

Boolean_to_bytes(v) ==
    [raised |-> FALSE, bytes |-> IF PyEq(v, BoolV(TRUE)) THEN ByteB(1) ELSE ByteB(0)]

Boolean_from_bytes(b) == BoolV(b = ByteB(1))

\* struct.pack('f', None) raises TypeError
Float_to_bytes(v) ==
    IF v.t = "null" THEN [raised |-> TRUE, bytes |-> NoBytes]
    ELSE [raised |-> FALSE, bytes |-> F32B(F32Round(v.v))]

Float_from_bytes(b) == FloatV(b.v)

to_bytes(k, v) == IF k = "pbool" THEN Boolean_to_bytes(v) ELSE Float_to_bytes(v)

from_bytes(k, b) == IF k = "pbool" THEN Boolean_from_bytes(b) ELSE Float_from_bytes(b)

Persistent(k) == k \in {"pbool", "pfloat"}

----------------------------------------------------------------------------
(* The registers.  A set operation yields the register's new in-memory     *)
(* field and the new store, and whether it raised.                         *)
Raise(val, store) == [raised |-> TRUE, value |-> val, db |-> store]
Done(val, store)  == [raised |-> FALSE, value |-> val, db |-> store]

ServerRegister_get_value(val, store, n) == val[n]

ServerRegister_set_value(val, store, n, v) == Done([val EXCEPT ![n] = v], store)

ServerReadOnlyRegister_set_value_writes(val, store, n, v) ==
    Done([val EXCEPT ![n] = v], store)

ServerReadOnlyRegister_set_value(val, store, n, v) == Raise(val, store)

PersistentServerRegister_get_value(val, store, n) == from_bytes(kind[n], store[n])

PersistentServerRegister_set_value(val, store, n, v) ==
    LET b == to_bytes(kind[n], v) IN
    IF b.raised THEN Raise(val, store)
    ELSE Done(val, [store EXCEPT ![n] = b.bytes])

\* PersistentServerRegister.__init__, lines 64-65: the default is written only
\* when the name is not in the store (b is the entry found there)
PersistentServerRegister_init_overwrites(k, b, default) == to_bytes(k, default).bytes

PersistentServerRegister_init(k, b, default) ==
    IF b /= NoBytes THEN b ELSE to_bytes(k, default).bytes

register_get_value(val, store, n) ==
    IF Persistent(kind[n]) THEN PersistentServerRegister_get_value(val, store, n)
    ELSE ServerRegister_get_value(val, store, n)

register_set_value(val, store, n, v) ==
    IF kind[n] = "ro" THEN ServerReadOnlyRegister_set_value(val, store, n, v)
    ELSE IF Persistent(kind[n]) THEN PersistentServerRegister_set_value(val, store, n, v)
    ELSE ServerRegister_set_value(val, store, n, v)

\* ServerListHandler: self.registers[name] raises KeyError for an undeclared name
ServerListHandler_has(n) == InSeq(n, server_names)

ServerListHandler_get_value(n) == register_get_value(value, db, n)

ServerListHandler_set_value(n, v) ==
    IF ~ServerListHandler_has(n) THEN Raise(value, db)
    ELSE register_set_value(value, db, n, v)

----------------------------------------------------------------------------
(* Bounds of the model: tasks that were created or cancelled and have not  *)
(* run since.                                                              *)
MaxTimers == 3
MaxAdvTasks == 2

\* the in-flight limit of publish_register_value
MaxInFlight == 2

FreeId(S) == CHOOSE i \in 0..Cardinality(S) : \A t \in S : t.id /= i

----------------------------------------------------------------------------
(* Registry.publish_register_value(name), lines 207-215: a missing counter *)
(* starts at 0; below the limit the counter is incremented and a task is   *)
(* created, otherwise the request is dropped.                              *)
NewPubTask(S) == [id |-> FreeId(S), pc |-> "created", msg |-> EmptyPayload]

publish_register_value_unlimited(pip, tasks, n) ==
    [pip   |-> [pip EXCEPT ![n] = @ + 1],
     tasks |-> [tasks EXCEPT ![n] = @ \cup {NewPubTask(@)}],
     pub   |-> "started"]

publish_register_value(pip, tasks, n) ==
    IF pip[n] < MaxInFlight
    THEN [pip   |-> [pip EXCEPT ![n] = @ + 1],
          tasks |-> [tasks EXCEPT ![n] = @ \cup {NewPubTask(@)}],
          pub   |-> "started"]
    ELSE [pip |-> pip, tasks |-> tasks, pub |-> "dropped"]

\* the finally clause of the publish task, lines 202-205
publish_finally_leaks(pip, n, ok) ==
    IF ok /\ pip[n] > 0 THEN [pip EXCEPT ![n] = @ - 1] ELSE pip

publish_finally(pip, n, ok) ==
    IF pip[n] > 0 THEN [pip EXCEPT ![n] = @ - 1] ELSE pip

(* ServerRegister.set_value_local, lines 31-35: it compares and assigns    *)
(* the in-memory field, whatever the class of the register.                *)
set_value_local_via_set_value(n, v) ==
    LET r == register_set_value(value, db, n, v) IN
    IF PyEq(register_get_value(value, db, n), v) \/ r.raised
    THEN [changed |-> FALSE, raised |-> r.raised, value |-> value, db |-> db,
          pip |-> publish_in_progress, tasks |-> pubTasks, pub |-> "none"]
    ELSE LET p == publish_register_value(publish_in_progress, pubTasks, n) IN
         [changed |-> TRUE, raised |-> FALSE, value |-> r.value, db |-> r.db,
          pip |-> p.pip, tasks |-> p.tasks, pub |-> p.pub]

set_value_local(n, v) ==
    IF ~PyEq(value[n], v)
    THEN LET p == publish_register_value(publish_in_progress, pubTasks, n) IN
         [changed |-> TRUE, raised |-> FALSE, value |-> [value EXCEPT ![n] = v], db |-> db,
          pip |-> p.pip, tasks |-> p.tasks, pub |-> p.pub]
    ELSE [changed |-> FALSE, raised |-> FALSE, value |-> value, db |-> db,
          pip |-> publish_in_progress, tasks |-> pubTasks, pub |-> "none"]

----------------------------------------------------------------------------
(* Registry.advertise_registers, lines 234-235: the flag is read here and  *)
(* set by the task when it first runs.                                     *)
advertise_registers(flag, tasks) ==
    IF ~flag THEN tasks \cup {[id |-> FreeId(tasks), pc |-> 0]} ELSE tasks

(* Registry.reset_client_timeout, lines 262-265: cancel the task the table *)
(* holds for the name, then create a task and store its handle.  A         *)
(* cancelled task is thrown CancelledError the next time it is scheduled,  *)
(* wherever it was waiting: the model forgets where.                       *)
cancel(S, h) ==
    {IF t.id \in h THEN [t EXCEPT !.cancelled = TRUE, !.pc = "cancelled"] ELSE t : t \in S}

NewTimer(S, first) ==
    [id |-> FreeId(S), pc |-> IF first THEN "new_first" ELSE "new", cancelled |-> FALSE]

reset_client_timeout_no_cancel(ct, tm, n, first) ==
    LET t == NewTimer(tm[n], first) IN
    [ct |-> [ct EXCEPT ![n] = {t.id}], timers |-> [tm EXCEPT ![n] = @ \cup {t}]]

reset_client_timeout(ct, tm, n, first) ==
    LET S == cancel(tm[n], ct[n])
        t == NewTimer(S, first)
    IN [ct |-> [ct EXCEPT ![n] = {t.id}], timers |-> [tm EXCEPT ![n] = S \cup {t}]]

\* ClientListHandler.set_value: self.registers[name] raises KeyError
ClientListHandler_set_value(cv, n, v) ==
    IF InSeq(n, client_names) THEN [raised |-> FALSE, cvalue |-> [cv EXCEPT ![n] = v]]
    ELSE [raised |-> TRUE, cvalue |-> cv]

----------------------------------------------------------------------------
(* Inbound messages.  A topic is its bytes' decodability and its segments  *)
(* between the slashes; the model holds topics of at most 3 segments, so   *)
(* the slice topic[9:-4] (topic[9:-3]) is the middle segment, or '' when   *)
(* there is none.                                                          *)
Topic(segs)  == [utf8 |-> TRUE, segs |-> segs]
BadTopic     == [utf8 |-> FALSE, segs |-> <<>>]
Msg(t, p, r) == [topic |-> t, payload |-> p, retained |-> r]

startswith_register(segs) == Len(segs) >= 2 /\ segs[1] = "register"
endswith(segs, suffix)    == Len(segs) >= 2 /\ segs[Len(segs)] = suffix
topic_name(segs)          == IF Len(segs) = 3 THEN segs[2] ELSE ""

\* what one pass of the loop body of read_messages leaves behind
Outcome(op, n, raised, pub, val, store, pip, tasks, cv, ct, tm, adv) ==
    [op |-> op, name |-> n, raised |-> raised, pub |-> pub,
     value |-> val, db |-> store, pip |-> pip, tasks |-> tasks,
     cvalue |-> cv, ct |-> ct, timers |-> tm, adv |-> adv]

Untouched(op, n, raised) ==
    Outcome(op, n, raised, "none", value, db, publish_in_progress, pubTasks,
            cvalue, client_timeouts, timers, advTasks)

(* The body of the try block of read_messages, lines 334-369.  An          *)
(* exception leaves what was done before it: the `is` branch resets the    *)
(* timer before it looks the client register up.                           *)
handle_get(n) ==
    LET p == publish_register_value(publish_in_progress, pubTasks, n) IN
    Outcome("get", n, FALSE, p.pub, value, db, p.pip, p.tasks,
            cvalue, client_timeouts, timers, advTasks)

handle_set(n, message) ==
    LET d == decode_payload(message)
        r == ServerListHandler_set_value(n, d.val)
        p == publish_register_value(publish_in_progress, pubTasks, n)
    IN IF d.raised THEN Untouched("set", n, TRUE)
       ELSE IF r.raised THEN Untouched("set", n, TRUE)
       ELSE Outcome("set", n, FALSE, p.pub, r.value, r.db, p.pip, p.tasks,
                    cvalue, client_timeouts, timers, advTasks)

handle_is_first(n, message) ==
    LET d == decode_payload(message)
        t == reset_client_timeout(client_timeouts, timers, n, TRUE)
        c == ClientListHandler_set_value(cvalue, n, d.val)
    IN IF d.raised THEN Untouched("is", n, TRUE)
       ELSE Outcome("is", n, c.raised, "none", value, db, publish_in_progress, pubTasks,
                    c.cvalue, t.ct, t.timers, advTasks)

handle_is(n, message) ==
    LET d == decode_payload(message)
        t == reset_client_timeout(client_timeouts, timers, n, FALSE)
        c == ClientListHandler_set_value(cvalue, n, d.val)
    IN IF d.raised THEN Untouched("is", n, TRUE)
       ELSE Outcome("is", n, c.raised, "none", value, db, publish_in_progress, pubTasks,
                    c.cvalue, t.ct, t.timers, advTasks)

handle_message(m) ==
    IF ~m.topic.utf8 THEN Untouched("undecodable", "", TRUE)
    ELSE LET segs == m.topic.segs
             n    == topic_name(segs)
         IN IF segs = <<"register", "advertise!">>
            THEN Outcome("advertise!", "", FALSE, "none", value, db, publish_in_progress,
                         pubTasks, cvalue, client_timeouts, timers,
                         advertise_registers(advertise_in_progress, advTasks))
            ELSE IF ~startswith_register(segs) THEN Untouched("ignored", "", FALSE)
            ELSE IF endswith(segs, "get") THEN handle_get(n)
            ELSE IF endswith(segs, "set") THEN handle_set(n, m.payload)
            ELSE IF endswith(segs, "is") THEN handle_is(n, m.payload)
            ELSE Untouched("ignored", "", FALSE)

\* the except clause of read_messages, lines 371-373: the loop goes on
after_message_uncaught(raised) == IF raised THEN "dead" ELSE "running"

after_message(raised) == "running"

\* room for the tasks a message may create
Room(m) ==
    /\ m.topic.utf8 /\ endswith(m.topic.segs, "is")
           => Cardinality(timers[topic_name(m.topic.segs)]) < MaxTimers
    /\ m.topic.utf8 /\ m.topic.segs = <<"register", "advertise!">>
           => Cardinality(advTasks) < MaxAdvTasks

\* `if not retained`, line 332
skipped_never(m) == FALSE

skipped(m) == m.retained

(* One pass of `async for topic, message, retained in queue`, lines        *)
(* 331-373: there is no await in the body.                                 *)
Receive(m) ==
    /\ reader = "running"
    /\ Room(m)
    /\ IF skipped(m)
       THEN /\ UNCHANGED <<serverVars, clientVars, advTasks, reader>>
            /\ lastOp' = [op |-> "retained", name |-> "", raised |-> FALSE, pub |-> "none"]
       ELSE \E o \in {handle_message(m)} :
            /\ value' = o.value
            /\ db' = o.db
            /\ publish_in_progress' = o.pip
            /\ pubTasks' = o.tasks
            /\ cvalue' = o.cvalue
            /\ client_timeouts' = o.ct
            /\ timers' = o.timers
            /\ advTasks' = o.adv
            /\ reader' = after_message(o.raised)
            /\ lastOp' = [op |-> o.op, name |-> o.name, raised |-> o.raised, pub |-> o.pub]
    /\ UNCHANGED <<cfgVars, advertise_in_progress, linkVars>>

(* The host calls set_value_local on a declared server register.           *)
LocalSet(n, v) ==
    /\ ServerListHandler_has(n)
    /\ \E r \in {set_value_local(n, v)} :
       /\ value' = r.value
       /\ db' = r.db
       /\ publish_in_progress' = r.pip
       /\ pubTasks' = r.tasks
       /\ lastOp' = [op |-> IF r.changed THEN "local" ELSE "local_same", name |-> n,
                     raised |-> r.raised, pub |-> r.pub]
    /\ UNCHANGED <<cfgVars, clientVars, advVars, linkVars, reader>>

(* The publish task, lines 188-205.  Its first run reads the value, which  *)
(* raises KeyError outside the try block for an undeclared name and ends   *)
(* the task there, builds the message and awaits the publish; its second   *)
(* run is the publish returning or raising, and the finally clause.        *)
PublishStart(n, id) ==
    \E t \in pubTasks[n] :
        /\ t.id = id /\ t.pc = "created"
        /\ IF ServerListHandler_has(n)
           THEN \E msg \in {publish_json_payload(ServerListHandler_get_value(n))} :
                /\ pubTasks' = [pubTasks EXCEPT ![n] =
                        (@ \ {t}) \cup {[t EXCEPT !.pc = "publishing", !.msg = msg]}]
                /\ lastOp' = [op |-> "pub_start", name |-> n, raised |-> FALSE, pub |-> "none"]
           ELSE /\ pubTasks' = [pubTasks EXCEPT ![n] = @ \ {t}]
                /\ lastOp' = [op |-> "pub_died", name |-> n, raised |-> TRUE, pub |-> "none"]
        /\ UNCHANGED <<cfgVars, value, db, publish_in_progress, clientVars, advVars,
                       linkVars, reader>>

PublishEnd(n, id, ok) ==
    \E t \in pubTasks[n] :
        /\ t.id = id /\ t.pc = "publishing"
        /\ pubTasks' = [pubTasks EXCEPT ![n] = @ \ {t}]
        /\ publish_in_progress' = publish_finally(publish_in_progress, n, ok)
        /\ lastOp' = [op |-> IF ok THEN "pub_ok" ELSE "pub_fail", name |-> n,
                      raised |-> FALSE, pub |-> "none"]
        /\ UNCHANGED <<cfgVars, value, db, clientVars, advVars, linkVars, reader>>

----------------------------------------------------------------------------
(* The liveness task, lines 239-260, from one await to the next.  `ok` is  *)
(* the outcome of the awaited publish.  The result tells whether the run   *)
(* started a `get` poll and whether it cleared the client register.        *)
liveness_run_clears_on_failure(pc, ok) ==
    IF pc = "new_first" THEN [pc |-> "publish", poll |-> TRUE, clear |-> FALSE]
    ELSE IF pc = "new" THEN [pc |-> "jitter", poll |-> FALSE, clear |-> FALSE]
    ELSE IF pc = "jitter" THEN [pc |-> "publish", poll |-> TRUE, clear |-> FALSE]
    ELSE IF pc = "publish" /\ ok THEN [pc |-> "wait", poll |-> FALSE, clear |-> FALSE]
    ELSE [pc |-> "jitter", poll |-> FALSE, clear |-> TRUE]

liveness_run(pc, ok) ==
    IF pc = "new_first" THEN [pc |-> "publish", poll |-> TRUE, clear |-> FALSE]
    ELSE IF pc = "new" THEN [pc |-> "jitter", poll |-> FALSE, clear |-> FALSE]
    ELSE IF pc = "jitter" THEN [pc |-> "publish", poll |-> TRUE, clear |-> FALSE]
    ELSE IF pc = "publish" /\ ok THEN [pc |-> "wait", poll |-> FALSE, clear |-> FALSE]
    ELSE IF pc = "publish" THEN [pc |-> "jitter", poll |-> FALSE, clear |-> FALSE]
    ELSE [pc |-> "jitter", poll |-> FALSE, clear |-> TRUE]

(* A liveness task is scheduled: a cancelled one is thrown CancelledError, *)
(* which `except Exception` does not catch, and ends; a live one runs to   *)
(* its next await.  The KeyError of an undeclared name is caught at 258.   *)
TimerRun(n, id, ok) ==
    \E t \in timers[n] :
        /\ t.id = id
        /\ t.pc = "publish" \/ ok
        /\ IF t.cancelled
           THEN /\ ok
                /\ timers' = [timers EXCEPT ![n] = @ \ {t}]
                /\ cvalue' = cvalue
                /\ lastOp' = [op |-> "timer_cancelled", name |-> n, raised |-> TRUE,
                              pub |-> "none"]
           ELSE \E r \in {liveness_run(t.pc, ok)} :
                \E c \in {IF r.clear THEN ClientListHandler_set_value(cvalue, n, Null)
                          ELSE [raised |-> FALSE, cvalue |-> cvalue]} :
                /\ timers' = [timers EXCEPT ![n] = (@ \ {t}) \cup {[t EXCEPT !.pc = r.pc]}]
                /\ cvalue' = c.cvalue
                /\ lastOp' = [op |-> IF r.clear THEN "timer_timeout"
                                     ELSE IF r.poll THEN "timer_poll"
                                     ELSE IF t.pc = "publish" /\ ~ok THEN "timer_poll_failed"
                                     ELSE "timer_run",
                              name |-> n, raised |-> c.raised, pub |-> "none"]
        /\ UNCHANGED <<cfgVars, serverVars, client_timeouts, advVars, linkVars, reader>>

----------------------------------------------------------------------------
(* The advertise task, lines 219-232: its first run sets the flag and      *)
(* awaits the first publish, or with no server register clears the flag    *)
(* and ends; a failed publish ends the task through the finally clause.    *)
\* the register whose metadata a run publishes: the one after the pc already
\* published, in the order of server_names; "" when the run publishes nothing
advertise_next_reversed(pc, ok) ==
    IF ok /\ pc < Len(server_names) THEN server_names[Len(server_names) - pc] ELSE ""

advertise_next(pc, ok) == IF ok /\ pc < Len(server_names) THEN server_names[pc + 1] ELSE ""

AdvRun(id, ok) ==
    \E t \in advTasks :
        /\ t.id = id
        /\ t.pc > 0 \/ ok
        /\ IF ok /\ t.pc < Len(server_names)
           THEN /\ advTasks' = (advTasks \ {t}) \cup {[t EXCEPT !.pc = @ + 1]}
                /\ advertise_in_progress' = TRUE
           ELSE /\ advTasks' = advTasks \ {t}
                /\ advertise_in_progress' = FALSE
        /\ lastOp' = [op |-> IF ok THEN "adv_run" ELSE "adv_failed",
                      name |-> advertise_next(t.pc, ok),
                      raised |-> ~ok, pub |-> "none"]
        /\ UNCHANGED <<cfgVars, serverVars, clientVars, linkVars, reader>>

----------------------------------------------------------------------------
(* The transport raises `up` and `down` as the link changes, once the      *)
(* first connect has succeeded.  Event.set() makes the task that waits on  *)
(* the event runnable, behind the tasks that are runnable already; a task  *)
(* that finds its event set when it comes to wait() does not wait.         *)
Connected == reader \in {"running", "dead"}

Without(q, w) == SelectSeq(q, LAMBDA x : x /= w)

\* the watcher w may run now: no other watcher was made runnable before it
MayRun(w) == IF ready = <<>> THEN TRUE ELSE Head(ready) = w \/ ~InSeq(w, ready)

LinkDown ==
    /\ Connected
    /\ link
    /\ link' = FALSE
    /\ down_event' = TRUE
    /\ ready' = IF ~down_event THEN Append(ready, "down") ELSE ready
    /\ lastOp' = [op |-> "link_down", name |-> "", raised |-> FALSE, pub |-> "none"]
    /\ UNCHANGED <<cfgVars, serverVars, clientVars, advVars, up_event, upIdx, online, reader>>

LinkUp ==
    /\ Connected
    /\ ~link
    /\ link' = TRUE
    /\ up_event' = TRUE
    /\ ready' = IF ~up_event /\ upIdx = 0 THEN Append(ready, "up") ELSE ready
    /\ lastOp' = [op |-> "link_up", name |-> "", raised |-> FALSE, pub |-> "none"]
    /\ UNCHANGED <<cfgVars, serverVars, clientVars, advVars, down_event, upIdx, online, reader>>

(* up_event_loop, lines 285-313.  The topics it subscribes to, in order.   *)
Sub(x, n) == [x |-> x, name |-> n]

RECURSIVE ServerSubs(_)
ServerSubs(s) ==
    IF s = <<>> THEN <<>>
    ELSE <<Sub("get", Head(s)), Sub("set", Head(s))>> \o ServerSubs(Tail(s))

Subscriptions_always_advertise ==
    <<Sub("advertise!", "")>>
    \o ServerSubs(server_names)
    \o [i \in 1..Len(client_names) |-> Sub("is", client_names[i])]

Subscriptions ==
    (IF Len(server_names) > 0 THEN <<Sub("advertise!", "")>> ELSE <<>>)
    \o ServerSubs(server_names)
    \o [i \in 1..Len(client_names) |-> Sub("is", client_names[i])]

\* the watcher wakes: clear the event, online_cb(True), start subscribing
UpWake ==
    /\ Connected
    /\ upIdx = 0
    /\ up_event
    /\ MayRun("up")
    /\ up_event' = FALSE
    /\ ready' = Without(ready, "up")
    /\ online' = TRUE
    /\ IF Len(Subscriptions) = 0
       THEN /\ Cardinality(advTasks) < MaxAdvTasks
            /\ advTasks' = advertise_registers(advertise_in_progress, advTasks)
            /\ upIdx' = 0
       ELSE /\ advTasks' = advTasks
            /\ upIdx' = 1
    /\ lastOp' = [op |-> "up", name |-> "", raised |-> FALSE, pub |-> "none"]
    /\ UNCHANGED <<cfgVars, serverVars, clientVars, advertise_in_progress, link,
                   down_event, reader>>

\* the awaited subscribe returns (ok) or raises: an exception is caught at
\* line 311 and the watcher waits for the next edge
Subscribed(ok) ==
    /\ upIdx > 0
    /\ LET sub  == Subscriptions[upIdx]
           last == upIdx = Len(Subscriptions)
       IN /\ ok /\ sub.x = "is" => Cardinality(timers[sub.name]) < MaxTimers
          /\ ok /\ last => Cardinality(advTasks) < MaxAdvTasks
          /\ \E t \in {IF ok /\ sub.x = "is"
                       THEN reset_client_timeout(client_timeouts, timers, sub.name, TRUE)
                       ELSE [ct |-> client_timeouts, timers |-> timers]} :
                /\ client_timeouts' = t.ct
                /\ timers' = t.timers
          /\ advTasks' = IF ok /\ last
                         THEN advertise_registers(advertise_in_progress, advTasks)
                         ELSE advTasks
          /\ upIdx' = IF ok /\ ~last THEN upIdx + 1 ELSE 0
          /\ lastOp' = [op |-> IF ok THEN "subscribed" ELSE "subscribe_failed",
                        name |-> sub.name, raised |-> ~ok, pub |-> "none"]
    /\ UNCHANGED <<cfgVars, serverVars, cvalue, advertise_in_progress, link, up_event,
                   down_event, ready, online, reader>>

\* down_event_loop, lines 318-326
DownWake ==
    /\ Connected
    /\ down_event
    /\ MayRun("down")
    /\ down_event' = FALSE
    /\ ready' = Without(ready, "down")
    /\ online' = FALSE
    /\ lastOp' = [op |-> "down", name |-> "", raised |-> FALSE, pub |-> "none"]
    /\ UNCHANGED <<cfgVars, serverVars, clientVars, advVars, link, up_event, upIdx, reader>>

----------------------------------------------------------------------------
(* The state after Registry.__init__ and a successful connect (mqtt_as     *)
(* sets `up` when the link comes up): registers hold None in memory (line  *)
(* 13, 61), persistent ones have written their default to an empty store,  *)
(* online_cb(False) was the last call (line 271).                          *)
Payloads == {EmptyPayload, BadPayload} \cup {JsonText(v) : v \in Values}

NoOp == [op |-> "init", name |-> "", raised |-> FALSE, pub |-> "none"]

EmptyStore == [n \in Names |-> NoBytes]

Constructed(sn, k, store, default) ==
    [n \in Names |-> IF InSeq(n, sn) /\ Persistent(k[n])
                     THEN PersistentServerRegister_init(k[n], store[n], default)
                     ELSE store[n]]

\* a default the constructor accepts: set_value(default) must not raise
Constructible(sn, k, default) ==
    \A n \in Names : InSeq(n, sn) /\ Persistent(k[n]) => ~to_bytes(k[n], default).raised

Fresh(sn, cn, k, store) ==
    /\ server = sn
    /\ server_names \in get_names(sn)
    /\ client_names \in get_names(cn)
    /\ kind = k
    /\ value = [n \in Names |-> Null]
    /\ db = store
    /\ publish_in_progress = [n \in Names |-> 0]
    /\ pubTasks = [n \in Names |-> {}]
    /\ cvalue = [n \in Names |-> Null]
    /\ client_timeouts = [n \in Names |-> {}]
    /\ timers = [n \in Names |-> {}]
    /\ advertise_in_progress = FALSE
    /\ advTasks = {}
    /\ link = TRUE
    /\ up_event = TRUE
    /\ down_event = FALSE
    /\ upIdx = 0
    /\ ready = <<"up">>
    /\ online = FALSE
    /\ reader = "running"
    /\ lastOp = NoOp

(* The device restarts (machine.reset, or power): every object is built    *)
(* anew, over the same store, possibly with another default.               *)
Restart(default) ==
    /\ Constructible(server_names, kind, default)
    /\ db' = Constructed(server_names, kind, db, default)
    /\ value' = [n \in Names |-> Null]
    /\ publish_in_progress' = [n \in Names |-> 0]
    /\ pubTasks' = [n \in Names |-> {}]
    /\ cvalue' = [n \in Names |-> Null]
    /\ client_timeouts' = [n \in Names |-> {}]
    /\ timers' = [n \in Names |-> {}]
    /\ advertise_in_progress' = FALSE
    /\ advTasks' = {}
    /\ link' = TRUE
    /\ up_event' = TRUE
    /\ down_event' = FALSE
    /\ upIdx' = 0
    /\ ready' = <<"up">>
    /\ online' = FALSE
    /\ reader' = "running"
    /\ lastOp' = [op |-> "restart", name |-> "", raised |-> FALSE, pub |-> "none"]
    /\ UNCHANGED cfgVars

----------------------------------------------------------------------------
(* The connect loop of run_async, lines 273-283.  A connect that raises is *)
(* followed by a sleep of 5000 ms, whatever was raised, and after the      *)
(* sleep by machine.reset() when the message of the exception is 'Wifi     *)
(* Internal Error', by the next attempt otherwise.  The loop is left by a  *)
(* connect that returns; the watchers and read_messages start after it.    *)
ConnectOutcomes == {"ok", "Wifi Internal Error", "OSError"}

connect_attempt(e) ==
    IF e = "ok" THEN "running"
    ELSE IF e = "Wifi Internal Error" THEN "backoff_fatal"
    ELSE "backoff"

after_backoff_always_retries(pc) == "connect"

after_backoff(pc) == IF pc = "backoff_fatal" THEN "reset" ELSE "connect"

\* the device boots: Registry.__init__ and run_async up to the first connect
Boot(sn, cn, k, store) ==
    /\ server = sn
    /\ server_names \in get_names(sn)
    /\ client_names \in get_names(cn)
    /\ kind = k
    /\ value = [n \in Names |-> Null]
    /\ db = store
    /\ publish_in_progress = [n \in Names |-> 0]
    /\ pubTasks = [n \in Names |-> {}]
    /\ cvalue = [n \in Names |-> Null]
    /\ client_timeouts = [n \in Names |-> {}]
    /\ timers = [n \in Names |-> {}]
    /\ advertise_in_progress = FALSE
    /\ advTasks = {}
    /\ link = FALSE
    /\ up_event = FALSE
    /\ down_event = FALSE
    /\ upIdx = 0
    /\ ready = <<>>
    /\ online = FALSE
    /\ reader = "connect"
    /\ lastOp = NoOp

\* `await self.mqtt_client.connect()` returns or raises
Connect(e) ==
    /\ reader = "connect"
    /\ reader' = connect_attempt(e)
    /\ IF e = "ok"
       THEN link' = TRUE /\ up_event' = TRUE /\ ready' = <<"up">>
       ELSE UNCHANGED <<link, up_event, ready>>
    /\ lastOp' = [op |-> IF e = "ok" THEN "connected" ELSE "connect_failed", name |-> "",
                  raised |-> e /= "ok", pub |-> "none"]
    /\ UNCHANGED <<cfgVars, serverVars, clientVars, advVars, down_event, upIdx, online>>

\* the sleep of line 281 is over: reset the device, or try again.  Nothing
\* but the position of run_async has changed since the boot, so the device
\* that was reset is in the state of Boot again.
BackoffEnd ==
    /\ reader \in {"backoff", "backoff_fatal"}
    /\ IF after_backoff(reader) = "reset"
       THEN /\ reader' = "connect"
            /\ lastOp' = [op |-> "reset", name |-> "", raised |-> FALSE, pub |-> "none"]
       ELSE /\ reader' = after_backoff(reader)
            /\ lastOp' = [op |-> "retry", name |-> "", raised |-> FALSE, pub |-> "none"]
    /\ UNCHANGED <<cfgVars, serverVars, clientVars, advVars, linkVars>>

----------------------------------------------------------------------------
(* The server side: one server register "a" of any class, the inbound      *)
(* get and set requests for it and for the undeclared "u", malformed and   *)
(* foreign messages, local sets, and the publish tasks.                    *)
RetainedMsgs ==
    {Msg(Topic(<<"register", "a", "set">>), JsonText(BoolV(TRUE)), TRUE),
     Msg(Topic(<<"register", "a", "set">>), BadPayload, TRUE),
     Msg(Topic(<<"register", "a", "get">>), EmptyPayload, TRUE),
     Msg(Topic(<<"register", "c", "is">>), JsonText(BoolV(TRUE)), TRUE),
     Msg(Topic(<<"register", "advertise!">>), EmptyPayload, TRUE),
     Msg(BadTopic, EmptyPayload, TRUE)}

PublishMsgs ==
    {Msg(Topic(<<"register", n, "get">>), EmptyPayload, FALSE) : n \in {"a", "u"}}
    \cup {Msg(Topic(<<"register", "a", "set">>), p, FALSE) : p \in Payloads}
    \cup {Msg(Topic(<<"register", "u", "set">>), JsonText(BoolV(TRUE)), FALSE),
          Msg(BadTopic, EmptyPayload, FALSE),
          Msg(Topic(<<"other", "a", "set">>), EmptyPayload, FALSE),
          Msg(Topic(<<"register", "a", "advertise">>), EmptyPayload, FALSE)}
    \cup RetainedMsgs

InitPublish ==
    \E k \in Kinds, d \in Values :
        LET kk == [n \in Names |-> k] IN
        /\ Constructible(<<"a">>, kk, d)
        /\ Fresh(<<"a">>, <<>>, kk, Constructed(<<"a">>, kk, EmptyStore, d))

ReceivePublish == \E m \in PublishMsgs : Receive(m)
LocalSetAny    == \E n \in Names, v \in Values : LocalSet(n, v)
PublishStartAny == \E n \in Names, id \in 0..(MaxInFlight - 1) : PublishStart(n, id)
PublishEndAny  ==
    \E n \in Names, id \in 0..(MaxInFlight - 1), ok \in BOOLEAN : PublishEnd(n, id, ok)
RestartAny     == \E d \in Values : Restart(d)

NextPublish ==
    \/ ReceivePublish
    \/ LocalSetAny
    \/ PublishStartAny
    \/ PublishEndAny
    \/ RestartAny

SpecPublish == InitPublish /\ [][NextPublish]_vars

(* The same with the requests for "a" alone, and fair: uasyncio runs every *)
(* ready task, and the transport's publish is taken to return or raise in  *)
(* the end.                                                                *)
FairMsgs ==
    {Msg(Topic(<<"register", "a", "get">>), EmptyPayload, FALSE)}
    \cup {Msg(Topic(<<"register", "a", "set">>), p, FALSE) : p \in Payloads}

ReceiveFair == \E m \in FairMsgs : Receive(m)

NextFairPublish ==
    \/ ReceiveFair
    \/ LocalSetAny
    \/ PublishStartAny
    \/ PublishEndAny

FairPublish ==
    /\ InitPublish
    /\ [][NextFairPublish]_vars
    /\ \A n \in Names, id \in 0..(MaxInFlight - 1) :
           /\ WF_vars(PublishStart(n, id))
           /\ WF_vars(\E ok \in BOOLEAN : PublishEnd(n, id, ok))

(* A burst of sets: the local sets and the inbound set messages for "a",   *)
(* and the publish tasks; no other request.                                *)
BurstMsgs == {Msg(Topic(<<"register", "a", "set">>), p, FALSE) : p \in Payloads}

ReceiveBurst == \E m \in BurstMsgs : Receive(m)

NextBurst ==
    \/ ReceiveBurst
    \/ LocalSetAny
    \/ PublishStartAny
    \/ PublishEndAny

SpecBurst == InitPublish /\ [][NextBurst]_vars

----------------------------------------------------------------------------
(* The client side: one client register "c" and no server register; the    *)
(* inbound `is` messages for it, the link going down and up, the two edge  *)
(* watchers, the liveness tasks and the advertise tasks.                   *)
LivenessMsgs ==
    {Msg(Topic(<<"register", "c", "is">>), p, FALSE) :
        p \in {EmptyPayload, BadPayload, JsonText(BoolV(TRUE))}}
    \cup {Msg(Topic(<<"register", "c", "is">>), JsonText(BoolV(TRUE)), TRUE)}

InitLiveness == Fresh(<<>>, <<"c">>, [n \in Names |-> "mem"], EmptyStore)

ReceiveLiveness == \E m \in LivenessMsgs : Receive(m)
TimerRunAny     == \E n \in Names, id \in 0..MaxTimers, ok \in BOOLEAN : TimerRun(n, id, ok)
AdvRunAny       == \E id \in 0..MaxAdvTasks, ok \in BOOLEAN : AdvRun(id, ok)
SubscribedAny   == \E ok \in BOOLEAN : Subscribed(ok)

NextLiveness ==
    \/ ReceiveLiveness
    \/ TimerRunAny
    \/ AdvRunAny
    \/ LinkDown
    \/ LinkUp
    \/ UpWake
    \/ SubscribedAny
    \/ DownWake

SpecLiveness == InitLiveness /\ [][NextLiveness]_vars

----------------------------------------------------------------------------
(* Stray messages on the client side: the client register "c", `is`        *)
(* messages for it and for "u", which is not declared, and the liveness    *)
(* tasks.                                                                  *)
StrayMsgs ==
    {Msg(Topic(<<"register", n, "is">>), JsonText(BoolV(TRUE)), FALSE) : n \in {"c", "u"}}

ReceiveStray == \E m \in StrayMsgs : Receive(m)

NextStray ==
    \/ ReceiveStray
    \/ TimerRunAny

SpecStray == InitLiveness /\ [][NextStray]_vars

----------------------------------------------------------------------------
(* The link: the device from its boot, with no register, with the server   *)
(* registers "a" and "b", or with the server register "a" and the client   *)
(* register "c"; the connect loop, the link going down and up, the two     *)
(* edge watchers, inbound advertise requests, and the advertise and        *)
(* liveness tasks the watchers start.                                      *)
LinkConfigs ==
    {[server |-> <<>>, client |-> <<>>],
     [server |-> <<"a", "b">>, client |-> <<>>],
     [server |-> <<"a">>, client |-> <<"c">>]}

LinkMsgs ==
    {Msg(Topic(<<"register", "advertise!">>), EmptyPayload, r) : r \in BOOLEAN}

InitLink ==
    \E c \in LinkConfigs : Boot(c.server, c.client, [n \in Names |-> "mem"], EmptyStore)

ConnectAny  == \E e \in ConnectOutcomes : Connect(e)
ReceiveLink == \E m \in LinkMsgs : Receive(m)

NextLink ==
    \/ ConnectAny
    \/ BackoffEnd
    \/ ReceiveLink
    \/ AdvRunAny
    \/ TimerRunAny
    \/ LinkDown
    \/ LinkUp
    \/ UpWake
    \/ SubscribedAny
    \/ DownWake

SpecLink == InitLink /\ [][NextLink]_vars

(* The same with link edges that do not outpace the scheduler: the         *)
(* transport sleeps between one edge and the next, so every watcher that   *)
(* an edge made runnable has run before the link changes again.  A         *)
(* subscribe still takes any time to return or raise.                      *)
Settled == ready = <<>> /\ ~(upIdx = 0 /\ up_event)

LinkDownSettled == Settled /\ LinkDown
LinkUpSettled   == Settled /\ LinkUp

NextEdges ==
    \/ ConnectAny
    \/ BackoffEnd
    \/ AdvRunAny
    \/ TimerRunAny
    \/ LinkDownSettled
    \/ LinkUpSettled
    \/ UpWake
    \/ SubscribedAny
    \/ DownWake

SpecEdges == InitLink /\ [][NextEdges]_vars

----------------------------------------------------------------------------
(* What the claims speak of.                                               *)
Declared(n) == ServerListHandler_has(n)

\* the step just taken called publish_register_value(n)
PublishCalled(n) == lastOp'.name = n /\ lastOp'.pub /= "none"

\* the step just taken was the end of a publish task of n
PublishEnded(n) == lastOp'.name = n /\ lastOp'.op \in {"pub_ok", "pub_fail"}

Outstanding(n, id) == \E t \in pubTasks[n] : t.id = id

SetMsg(n, p) == Msg(Topic(<<"register", n, "set">>), p, FALSE)

\* the step just taken handled the set message with payload p for n
SetReceived(n, p) == lastOp'.op = "set" /\ lastOp'.name = n /\ Receive(SetMsg(n, p))

\* the step just taken was the host's set_value_local(v) on n
LocalSetDone(n, v) == lastOp'.op \in {"local", "local_same"} /\ LocalSet(n, v)

\* the step just taken was a restart with the given default
Restarted(d) == lastOp'.op = "restart" /\ Restart(d)

Decodable == {p \in Payloads : ~decode_payload(p).raised}

(* C1: for a declared server register, a call of publish_register_value    *)
(* made while the counter is below 2 increases the counter by exactly 1    *)
(* and creates one task; the end of a publish task, whether the publish    *)
(* succeeded or failed, decreases the counter by exactly 1; and every      *)
(* publish task that was created ends.                                     *)
C1_Step ==
    \A n \in Names : Declared(n) =>
        /\ PublishCalled(n) /\ publish_in_progress[n] < MaxInFlight
               => /\ publish_in_progress'[n] = publish_in_progress[n] + 1
                  /\ Cardinality(pubTasks'[n]) = Cardinality(pubTasks[n]) + 1
        /\ PublishEnded(n)
               => /\ publish_in_progress'[n] = publish_in_progress[n] - 1
                  /\ Cardinality(pubTasks'[n]) = Cardinality(pubTasks[n]) - 1

C1_Theorem ==
    /\ [][C1_Step]_vars
    /\ \A id \in 0..(MaxInFlight - 1) : Outstanding("a", id) ~> ~Outstanding("a", id)

C1_Witness ==
    /\ lastOp.op = "pub_fail" /\ lastOp.name = "a"
    /\ publish_in_progress["a"] = 0

(* C2: the counter of every name is 0, 1 or 2 and at most 2 publish tasks  *)
(* of a name are outstanding; a call of publish_register_value made while  *)
(* the counter is 2 starts no task, queues nothing and leaves the counter  *)
(* at 2.                                                                   *)
C2_State ==
    \A n \in Names :
        /\ publish_in_progress[n] \in 0..2
        /\ Cardinality(pubTasks[n]) <= 2

C2_Step ==
    \A n \in Names :
        PublishCalled(n) /\ publish_in_progress[n] >= 2
            => /\ lastOp'.pub = "dropped"
               /\ pubTasks' = pubTasks
               /\ publish_in_progress' = publish_in_progress

C2_Theorem == C2_State /\ [][C2_State' /\ C2_Step]_vars

C2_Witness ==
    /\ lastOp.pub = "dropped" /\ lastOp.name = "a"
    /\ publish_in_progress["a"] = 2
    /\ Cardinality(pubTasks["a"]) = 2

Live(n) == {t \in timers[n] : ~t.cancelled}

ClientDeclared(n) == InSeq(n, client_names)

\* the step just taken was a run of a liveness task of n
TimerRan(n) ==
    /\ lastOp'.name = n
    /\ lastOp'.op \in {"timer_run", "timer_poll", "timer_poll_failed", "timer_timeout",
                       "timer_cancelled"}

(* C3: for every name at most one liveness task is live (not cancelled),   *)
(* and it is the one the timer table holds; the only step of a cancelled   *)
(* task is its end, which starts no `get` poll and leaves every client     *)
(* register's value as it is.                                              *)
C3_State ==
    \A n \in Names :
        /\ Cardinality(Live(n)) <= 1
        /\ \A t \in Live(n) : t.id \in client_timeouts[n]

C3_Step ==
    \A n \in Names : \A t \in timers[n] :
        t.cancelled =>
            \/ t \in timers'[n]
            \/ /\ timers' = [timers EXCEPT ![n] = @ \ {t}]
               /\ cvalue' = cvalue

C3_Theorem == C3_State /\ [][C3_State' /\ C3_Step]_vars

C3_Witness ==
    /\ Cardinality(timers["c"]) = 3
    /\ Cardinality(Live("c")) = 1
    /\ lastOp.op = "is" /\ lastOp.name = "c" /\ ~lastOp.raised

(* C4 as claimed: a live liveness task of a declared client register that  *)
(* waits its 10000 ms after a poll stays waiting, or clears the value and  *)
(* goes back to the jittered sleep, in every step that is not the arrival  *)
(* of an `is` message for the name.                                        *)
Waiting(n) == {t \in Live(n) : t.pc = "wait"}

TimedOut(n, t) ==
    /\ timers' = [timers EXCEPT ![n] = (@ \ {t}) \cup {[t EXCEPT !.pc = "jitter"]}]
    /\ cvalue' = [cvalue EXCEPT ![n] = Null]

C4_Claim ==
    [][\A n \in Names : ClientDeclared(n) =>
         \A t \in Waiting(n) :
             ~(lastOp'.op = "is" /\ lastOp'.name = n)
                 => t \in timers'[n] \/ TimedOut(n, t)]_vars

(* C4 as amended: the same in every step that is neither the arrival of an *)
(* `is` message for the name nor the up watcher's restart of its timer;    *)
(* and a run of a liveness task changes the value only as the timeout of   *)
(* a task that was waiting.                                                *)
C4_Step ==
    \A n \in Names : ClientDeclared(n) =>
        /\ \A t \in Waiting(n) :
               \/ lastOp'.name = n /\ lastOp'.op \in {"is", "subscribed"}
               \/ t \in timers'[n]
               \/ TimedOut(n, t)
        /\ TimerRan(n) /\ ~(\E t \in Waiting(n) : TimedOut(n, t))
               => cvalue' = cvalue

C4_Theorem == [][C4_Step]_vars

C4_Witness ==
    /\ lastOp.op = "timer_timeout" /\ lastOp.name = "c"
    /\ cvalue["c"] = Null
    /\ \E t \in Live("c") : t.pc = "jitter"

(* C5 as claimed, for the in-memory register: every inbound non-retained   *)
(* set message with a decodable payload sets the value to the decoded      *)
(* payload and starts a publish task.                                      *)
C5_Claim ==
    [][\A p \in Decodable :
          Declared("a") /\ kind["a"] = "mem" /\ SetReceived("a", p)
              => /\ value'["a"] = decode_payload(p).val
                 /\ Cardinality(pubTasks'["a"]) = Cardinality(pubTasks["a"]) + 1]_vars

(* The values a persistent register's encoding holds: the booleans for a   *)
(* boolean register, the numbers a 4-byte float holds exactly for a float  *)
(* register.                                                               *)
Representable(k, v) ==
    IF k = "pbool" THEN v.t = "bool"
    ELSE v.t /= "null" /\ F32Round(v.v) = v.v

(* C6 as claimed, for values of the register's type: set_value_local on a  *)
(* writable register changes nothing and requests no publish when the new  *)
(* value equals get_value(); else get_value() returns the new value        *)
(* afterwards and a publish is requested.                                  *)
C6_Claim ==
    [][\A v \in Values :
          /\ Declared("a") /\ kind["a"] /= "ro"
          /\ Persistent(kind["a"]) => Representable(kind["a"], v)
          /\ LocalSetDone("a", v)
          => IF PyEq(ServerListHandler_get_value("a"), v)
             THEN UNCHANGED serverVars /\ lastOp'.pub = "none"
             ELSE /\ PyEq(ServerListHandler_get_value("a")', v)
                  /\ lastOp'.pub /= "none"]_vars

(* C7: on a read-only register every set_value raises and leaves the value *)
(* and the store as they are; an inbound set message for it changes no     *)
(* value, no counter and starts no publish task.                           *)
ReadOnly(n) == Declared(n) /\ kind[n] = "ro"

C7_State ==
    \A n \in Names : ReadOnly(n) =>
        \A v \in Values :
            /\ ServerListHandler_set_value(n, v).raised
            /\ ServerListHandler_set_value(n, v).value = value
            /\ ServerListHandler_set_value(n, v).db = db

C7_Step ==
    \A n \in Names : ReadOnly(n) =>
        \A p \in Payloads :
            SetReceived(n, p) => UNCHANGED serverVars /\ lastOp'.raised

C7_Theorem == [][C7_State /\ C7_State' /\ C7_Step]_vars

C7_Witness ==
    /\ ReadOnly("a")
    /\ lastOp = [op |-> "set", name |-> "a", raised |-> TRUE, pub |-> "none"]
    /\ value["a"] /= Null

(* C8 as claimed, for a value other than the current one: set_value_local  *)
(* on a read-only register raises, leaves the value unchanged and requests *)
(* no publish.                                                             *)
C8_Claim ==
    [][\A v \in Values :
          ReadOnly("a") /\ ~PyEq(value["a"], v) /\ LocalSetDone("a", v)
              => lastOp'.raised /\ UNCHANGED serverVars]_vars

(* C8 as amended: set_value_local on a read-only register does not raise;  *)
(* with a value equal to the current one it changes nothing and requests   *)
(* no publish, with another value it assigns the value and calls           *)
(* publish_register_value, which starts a task when the counter is below   *)
(* 2.                                                                      *)
C8_Theorem ==
    [][\A v \in Values :
          ReadOnly("a") /\ LocalSetDone("a", v)
              => /\ ~lastOp'.raised
                 /\ IF PyEq(value["a"], v)
                    THEN UNCHANGED serverVars /\ lastOp'.pub = "none"
                    ELSE /\ value' = [value EXCEPT !["a"] = v]
                         /\ PublishCalled("a")
                         /\ publish_in_progress["a"] < MaxInFlight
                                => Cardinality(pubTasks'["a"]) = Cardinality(pubTasks["a"]) + 1]_vars

C8_Witness ==
    /\ ReadOnly("a")
    /\ lastOp = [op |-> "local", name |-> "a", raised |-> FALSE, pub |-> "started"]
    /\ value["a"] = BoolV(TRUE)

C10_Theorem ==
    /\ reader = "running"
    /\ ENABLED Receive(SetMsg("u", JsonText(BoolV(TRUE))))
    /\ ENABLED Receive(SetMsg("a", EmptyPayload))

C10_Witness ==
    /\ reader = "running"
    /\ lastOp = [op |-> "set", name |-> "u", raised |-> TRUE, pub |-> "none"]
    /\ publish_in_progress["a"] > 0

\* the step just taken was a run of an advertise task
AdvRan == lastOp'.op \in {"adv_run", "adv_failed"}

(* C11 as claimed: the i-th run of an advertise task that publishes hands  *)
(* the transport the advertise message of the i-th register declared.      *)
C11_Claim ==
    [][\A t \in advTasks :
          AdvRan /\ t \notin advTasks' /\ advTasks' \ advTasks /= {}
              => lastOp'.name = server[t.pc + 1]]_vars

(* C11 as amended: the i-th run of an advertise task that publishes hands  *)
(* the transport the advertise message of the i-th name of server_names;   *)
(* the task ends only when a publish failed or every name was published,   *)
(* it publishes nothing in the run it ends in, and it leaves the flag      *)
(* cleared; with no server register its only run publishes nothing.  When  *)
(* no advertise task is left the flag is cleared.                          *)
C11_State == advTasks = {} => ~advertise_in_progress

C11_Step ==
    \A t \in advTasks : AdvRan /\ t \notin advTasks' =>
        IF advTasks' \ advTasks /= {}
        THEN /\ advTasks' \ advTasks = {[t EXCEPT !.pc = t.pc + 1]}
             /\ t.pc < Len(server_names)
             /\ lastOp'.name = server_names[t.pc + 1]
             /\ ~lastOp'.raised
        ELSE /\ lastOp'.name = ""
             /\ ~advertise_in_progress'
             /\ lastOp'.raised \/ t.pc = Len(server_names)

C11_Theorem == [][C11_State /\ C11_State' /\ C11_Step]_vars

C11_Witness ==
    /\ server_names = <<"a", "b">>
    /\ lastOp.op = "adv_failed"
    /\ advTasks = {}
    /\ ~advertise_in_progress

(* C12: a connect that raises 'Wifi Internal Error' is followed by the     *)
(* sleep and then by the reset of the device, with no connect attempt in   *)
(* between; a connect that raises anything else is followed by the sleep   *)
(* and then by the next attempt, whatever number of attempts has failed    *)
(* before; a connect that returns ends the loop.  Until a connect has      *)
(* returned, no step is taken but those of the connect loop: no watcher    *)
(* runs, no message is handled and the engine's state stays as it is.      *)
ConnectLoopOps == {"connected", "connect_failed", "retry", "reset"}

C12_Step ==
    /\ Connect("Wifi Internal Error") => reader' = "backoff_fatal"
    /\ Connect("OSError") => reader' = "backoff"
    /\ Connect("ok") => reader' = "running"
    /\ reader = "backoff_fatal" => lastOp'.op = "reset" /\ reader' = "connect"
    /\ reader = "backoff" => lastOp'.op = "retry" /\ reader' = "connect"
    /\ ~Connected
           => /\ lastOp'.op \in ConnectLoopOps
              /\ UNCHANGED <<serverVars, clientVars, advVars, upIdx, online, down_event>>
    /\ ~Connected /\ Connected' => lastOp'.op = "connected"

C12_Theorem == [][C12_Step]_vars

C12_Witness ==
    /\ lastOp.op = "reset"
    /\ reader = "connect"
    /\ ~link /\ ~up_event

(* C13 as claimed, for an engine with server registers: at most one        *)
(* advertise task exists at any time, so a call of advertise_registers     *)
(* made while one exists, begun or not, creates none.                      *)
C13_Claim == Len(server_names) > 0 => Cardinality(advTasks) <= 1

IsMsg(n, p) == Msg(Topic(<<"register", n, "is">>), p, FALSE)

\* the step just taken handled the `is` message with payload p for n
IsReceived(n, p) == lastOp'.op = "is" /\ lastOp'.name = n /\ Receive(IsMsg(n, p))

(* C14: the handling of an `is` message with a decodable payload for a     *)
(* declared client register, whatever the liveness tasks of the name are   *)
(* doing, does not raise, leaves every task there was cancelled, creates   *)
(* one task, which is the live one and the one in the timer table and      *)
(* whose first run starts no `get` poll but the jittered sleep, and sets    *)
(* the client register's value to the decoded payload.                     *)
C14_Step ==
    \A n \in Names : ClientDeclared(n) =>
        \A p \in Decodable : IsReceived(n, p) =>
            /\ ~lastOp'.raised
            /\ \A t \in timers[n] : \E u \in timers'[n] : u.id = t.id /\ u.cancelled
            /\ \E u \in timers'[n] :
                   /\ \A t \in timers[n] : t.id /= u.id
                   /\ Live(n)' = {u}
                   /\ client_timeouts'[n] = {u.id}
                   /\ ~liveness_run(u.pc, TRUE).poll
                   /\ liveness_run(u.pc, TRUE).pc = "jitter"
            /\ cvalue'[n] = decode_payload(p).val

C14_Theorem == [][C14_Step]_vars

C14_Witness ==
    /\ lastOp = [op |-> "is", name |-> "c", raised |-> FALSE, pub |-> "none"]
    /\ cvalue["c"] = BoolV(TRUE)
    /\ \E t \in timers["c"] : t.cancelled
    /\ \E t \in Live("c") : t.pc = "new"

\* the step just taken was a run of the up watcher
UpRan == lastOp'.op \in {"up", "subscribed", "subscribe_failed"}

Subscribes(subs, x, n) == \E i \in 1..Len(subs) : subs[i] = Sub(x, n)

(* C15: the topics the up watcher subscribes to are register/advertise!    *)
(* if and only if a server register is declared, the get and set topics of *)
(* every server register and the is topic of every client register, and no *)
(* other.  The watcher's run on an edge calls online_cb(True) and starts   *)
(* with the first subscription; each subscribe that returns is followed by *)
(* the next, and the one of an is topic by a new liveness task for the     *)
(* name whose first run starts the `get` poll; advertise_registers is      *)
(* called after the last subscription has returned and not before; a       *)
(* subscribe that raises creates no task and sends the watcher back to     *)
(* wait for the next edge.                                                 *)
C15_Topics(subs) ==
    /\ Subscribes(subs, "advertise!", "") <=> Len(server) > 0
    /\ \A n \in Names :
           /\ Subscribes(subs, "get", n) <=> InSeq(n, server)
           /\ Subscribes(subs, "set", n) <=> InSeq(n, server)
           /\ Subscribes(subs, "is", n) <=> ClientDeclared(n)
           /\ ~Subscribes(subs, "advertise!", n)

C15_Step ==
    UpRan => \E subs \in {Subscriptions} :
        /\ lastOp'.op = "up"
               => /\ C15_Topics(subs)
                  /\ online' /\ ~up_event'
                  /\ upIdx' = IF Len(subs) > 0 THEN 1 ELSE 0
                  /\ timers' = timers
        /\ lastOp'.op = "subscribed" /\ upIdx > 0
               => /\ upIdx' = IF upIdx < Len(subs) THEN upIdx + 1 ELSE 0
                  /\ \E sub \in {subs[upIdx]} :
                         IF sub.x = "is"
                         THEN \E u \in timers'[sub.name] :
                                  /\ {t \in timers'[sub.name] : ~t.cancelled} = {u}
                                  /\ \A t \in timers[sub.name] : t.id /= u.id
                                  /\ liveness_run(u.pc, TRUE).poll
                         ELSE timers' = timers
        /\ lastOp'.op = "subscribe_failed"
               => upIdx' = 0 /\ timers' = timers /\ advTasks' = advTasks
        /\ IF lastOp'.op /= "subscribe_failed" /\ upIdx = Len(subs)
           THEN advTasks' = advertise_registers(advertise_in_progress, advTasks)
           ELSE advTasks' = advTasks

C15_Theorem == [][C15_Step]_vars

C15_Witness ==
    /\ server = <<"a">> /\ client_names = <<"c">>
    /\ lastOp = [op |-> "subscribed", name |-> "c", raised |-> FALSE, pub |-> "none"]
    /\ online /\ upIdx = 0
    /\ advTasks /= {}
    /\ \E t \in Live("c") : t.pc = "new_first"

(* C16: the handling of a message whose retained flag is set, whatever its *)
(* topic and payload, leaves the server and client registers, the store,   *)
(* the publish counters and tasks, the liveness tasks and their table, the *)
(* advertise flag and tasks as they are, and does not raise.               *)
C16_Step ==
    \A m \in RetainedMsgs :
        Receive(m) => /\ UNCHANGED <<serverVars, clientVars, advVars>>
                      /\ lastOp'.pub = "none" /\ ~lastOp'.raised

C16_Theorem == [][C16_Step]_vars

C16_Witness ==
    /\ lastOp.op = "retained"
    /\ publish_in_progress["a"] = 1
    /\ value["a"] = BoolV(FALSE)

(* C17 as claimed: the counter of every name is the number of publish      *)
(* tasks of the name that were created and have not ended.                 *)
C17_Claim == \A n \in Names : publish_in_progress[n] = Cardinality(pubTasks[n])

(* C18 as claimed: a name that is no declared client register has no       *)
(* liveness task and no entry in the timer table.                          *)
C18_Claim ==
    \A n \in Names : ~ClientDeclared(n) => timers[n] = {} /\ client_timeouts[n] = {}

(* C19 as claimed, in the form a finite run refutes: while publishes of a  *)
(* declared writable server register are outstanding, one of them is still *)
(* to read the value or has built its message from the current value.      *)
(* Were it not so, the publishes outstanding would complete with messages  *)
(* of older values and the current value would stay unannounced.           *)
C19_Claim ==
    Declared("a") /\ kind["a"] /= "ro" /\ pubTasks["a"] /= {}
        => \E t \in pubTasks["a"] :
               \/ t.pc = "created"
               \/ t.msg = publish_json_payload(ServerListHandler_get_value("a"))

(* C20 as claimed: when both watchers wait and neither event is set, the   *)
(* argument of the latest online_cb call is whether the link is up.        *)
WatchersIdle == Connected /\ upIdx = 0 /\ ~up_event /\ ~down_event

C20_Claim == WatchersIdle => online = link

====
